---- MODULE Spec2Model ----
(***************************************************************************)
(* Token lifecycle of the web panel: web/auth.py (token codec, revocation  *)
(* ledger in Redis, get_current_user) and web/routes/auth.py (login,       *)
(* refresh, logout).  Time is in seconds.                                  *)
(*                                                                         *)
(* The refresh endpoint reads and writes nothing the protected endpoints   *)
(* use, and the other way round, so the two are explored separately:       *)
(* SpecAuth runs get_current_user and the endpoints behind it, SpecRefresh *)
(* runs POST /auth/refresh; both run the clock, the accounts, login and    *)
(* revoke_token.  SpecTransport runs get_current_user behind requests that *)
(* may bring an access_token cookie next to the Authorization header, and  *)
(* SpecCodec calls create_access_token, create_refresh_token and           *)
(* decode_token directly, with claims and lifetimes no handler passes.     *)
(***************************************************************************)
EXTENDS Integers, FiniteSets, Sequences, TLC

VARIABLES
    now,          \* the clock, in seconds (datetime.utcnow)
    events,       \* how many clock steps, logins and revocations so far
    users,        \* the admin_users table
    ledger,       \* Redis: the revoked:<token> keys, each with its expiry time
    revocations,  \* history: the tokens revoke_token has been called on
    issued,       \* the tokens handed out so far
    minted,       \* history: the direct calls of create_*_token and their arguments
    refreshLog,   \* history: the refresh calls that presented the watched token
    req,          \* the get_current_user call in flight
    resp          \* the reply just delivered

vars == <<now, events, users, ledger, revocations, issued, minted, refreshLog, req, resp>>

\* ---------------------------------------------------------------- bounds
\* clock steps, successful logins and revocations in one run
MaxEvents == 3
\* direct calls of create_access_token and create_refresh_token in one run
MaxMinted == 1
\* refresh calls in one run
MaxRefresh == 3
\* the last day, counted from the first day a semester can start, that
\* get_week_type_for_date is asked about or a semester can end on
MaxDay == 21
\* the last day a semester can start on
MaxStart == 8

\* --------------------------------------------------------- configuration
ACCESS_TOKEN_EXPIRE_MINUTES == 30
REFRESH_TOKEN_EXPIRE_DAYS == 7
SECRET_KEY == "jwt-secret"
ALGORITHM == "HS256"

AccessTtl == ACCESS_TOKEN_EXPIRE_MINUTES * 60
RefreshTtl == REFRESH_TOKEN_EXPIRE_DAYS * 86400

\* Python's None, as returned by decode_token and dict.get
None == [none |-> TRUE]
NoneStr == "None"

\* ------------------------------------------------------- credential store
StoredUsers == {"alice", "bob"}
Usernames == StoredUsers \cup {"carol"}
Passwords == {"pw-alice", "pw-bob", "pw-wrong"}
PasswordOf(u) == IF u = "alice" THEN "pw-alice" ELSE "pw-bob"
\* AdminUser.role
RoleOf(u) == IF u = "alice" THEN "admin" ELSE "editor"
\* the accounts whose is_active flag changes
Toggled == {"alice"}

\* bcrypt: the digest binds the salt and the password
hash_password(password, salt) == [salt |-> salt, digest |-> <<salt, password>>]
\* bcrypt.checkpw recomputes the digest with the stored salt
verify_password(password, hashed) == hashed.digest = <<hashed.salt, password>>

\* ------------------------------------------------------------ token codec
\* HMAC over header and payload under the key
Sign(key, header, payload) == [key |-> key, header |-> header, payload |-> payload]

\* an encoder that keeps the registered claims only
jwt_encode_registered_only(claims, key, algorithm) ==
    LET kept == [k \in DOMAIN claims \cap {"sub", "exp", "type"} |-> claims[k]]
    IN  [header |-> algorithm, payload |-> kept, sig |-> Sign(key, algorithm, kept)]

jwt_encode(claims, key, algorithm) ==
    [header |-> algorithm, payload |-> claims, sig |-> Sign(key, algorithm, claims)]

\* a decoder that reads the payload without verifying the signature
jwt_decode_unverified(token, key, algorithms) ==
    IF "exp" \in DOMAIN token.payload /\ token.payload.exp < now
    THEN [raised |-> "ExpiredSignatureError", claims |-> None]
    ELSE [raised |-> "", claims |-> token.payload]

\* jose.jwt.decode: signature first, then exp against the verifying clock;
\* ExpiredSignatureError is a subclass of JWTError
jwt_decode(token, key, algorithms) ==
    IF token.header \notin algorithms
       \/ token.sig # Sign(key, token.header, token.payload)
    THEN [raised |-> "JWTError", claims |-> None]
    ELSE IF "exp" \in DOMAIN token.payload /\ token.payload.exp < now
    THEN [raised |-> "ExpiredSignatureError", claims |-> None]
    ELSE [raised |-> "", claims |-> token.payload]

\* dict.get(key) for the string-valued claims
Get(d, k) == IF k \in DOMAIN d THEN d[k] ELSE NoneStr

\* datetime.timedelta, in whole seconds
timedelta(seconds) == [seconds |-> seconds]

\* bool(timedelta): only the zero duration is falsy
timedelta_bool(delta) == delta.seconds # 0

\* expires_delta or timedelta(minutes=ACCESS_TOKEN_EXPIRE_MINUTES)
DeltaOrDefault(expires_delta) ==
    IF expires_delta # None /\ timedelta_bool(expires_delta)
    THEN expires_delta
    ELSE timedelta(AccessTtl)

\* the access token minted with the refresh kind
create_access_token_wrong_type(data, expires_delta) ==
    jwt_encode([exp |-> now + DeltaOrDefault(expires_delta).seconds, type |-> "refresh"]
                  @@ data,
               SECRET_KEY, ALGORITHM)

\* dict.update: exp and type replace what data holds under these keys
create_access_token(data, expires_delta) ==
    jwt_encode([exp |-> now + DeltaOrDefault(expires_delta).seconds, type |-> "access"]
                  @@ data,
               SECRET_KEY, ALGORITHM)

create_refresh_token(data) ==
    jwt_encode([exp |-> now + RefreshTtl, type |-> "refresh"] @@ data,
               SECRET_KEY, ALGORITHM)

\* except JWTError: return None  (covers ExpiredSignatureError as well)
decode_token(token) ==
    LET r == jwt_decode(token, SECRET_KEY, {ALGORITHM})
    IN  IF r.raised # "" THEN None ELSE r.claims

\* ------------------------------------------------------ revocation ledger
RedisKey(token) == <<"revoked:", token>>

\* redis EXISTS: a key is there until its TTL has elapsed
redis_exists(key) == \E e \in ledger : e.key = key /\ now < e.until

\* the check reads another key than revoke_token writes
is_token_revoked_wrong_key(token) == redis_exists(<<"revoked", token>>)

is_token_revoked(token) == redis_exists(RedisKey(token))

\* a write that leaves an entry already there in place
redis_setex_keep_old(key, ttl) ==
    ledger \cup {[key |-> key, until |-> now + ttl]}

\* redis SETEX key ttl value: replaces the entry and its TTL
redis_setex(key, ttl) ==
    {e \in ledger : e.key # key} \cup {[key |-> key, until |-> now + ttl]}

\* A coroutine object that is tested without being awaited is truthy
CoroutineTruthy == TRUE

\* --------------------------------------------------------- tokens in play
NoToken == jwt_encode([sub |-> ""], "", "")

\* a token whose payload was edited while the signature was kept
Tamper(token) ==
    [token EXCEPT !.payload = [exp |-> token.payload.exp + RefreshTtl] @@ token.payload]

\* a token whose subject was edited while the signature was kept
TamperSub(token) ==
    [token EXCEPT !.payload = [sub |-> "mallory"] @@ token.payload]

\* a token whose signature bytes were edited
TamperSig(token) ==
    [token EXCEPT !.sig = Sign("guess", token.header, token.payload)]

\* a token whose header was edited to name no algorithm
TamperAlg(token) == [token EXCEPT !.header = "none"]

Tampered(token) ==
    {Tamper(token), TamperSub(token), TamperSig(token), TamperAlg(token)}

\* a string that is not a JWT at all
Malformed == [header |-> "garbage", payload |-> [sub |-> "garbage"],
              sig |-> Sign("", "", [sub |-> ""])]

\* a token signed under SECRET_KEY by another issuer: the claims of an
\* issued token without the type claim, or with a type nothing here mints
Untyped(token) ==
    jwt_encode([k \in DOMAIN token.payload \ {"type"} |-> token.payload[k]],
               SECRET_KEY, ALGORITHM)
Retyped(token, type) ==
    jwt_encode([type |-> type] @@ token.payload, SECRET_KEY, ALGORITHM)
OddlyTyped(token) == {Untyped(token), Retyped(token, "id")}

Presentable == issued \cup {Tamper(t) : t \in issued} \cup {Malformed}

\* the tokens a request may carry
Presented == Presentable \cup UNION {OddlyTyped(t) : t \in issued}

ValidSig(token) ==
    token.header = ALGORITHM /\ token.sig = Sign(SECRET_KEY, token.header, token.payload)

ExpOf(token) == IF "exp" \in DOMAIN token.payload THEN token.payload.exp ELSE 0

Active(username) == username \in DOMAIN users /\ users[username].is_active

EverRevoked(token) == \E r \in revocations : r.token = token

\* the last successful revoke of the token covered its remaining lifetime
Covered(token) == \E r \in revocations : r.token = token /\ r.covered

\* refreshLog watches the first token ever presented to refresh: how many
\* refresh calls have presented it, and how many of them returned a pair
Watched(token) == refreshLog = {} \/ \E c \in refreshLog : c.token = token
RefreshCalls(token) ==
    IF \E c \in refreshLog : c.token = token
    THEN (CHOOSE c \in refreshLog : c.token = token).calls ELSE 0
RefreshOks(token) ==
    IF \E c \in refreshLog : c.token = token
    THEN (CHOOSE c \in refreshLog : c.token = token).oks ELSE 0
Logged(token, status) ==
    IF Watched(token)
    THEN {[token |-> token, calls |-> RefreshCalls(token) + 1,
           oks |-> RefreshOks(token) + (IF status = "ok" THEN 1 ELSE 0)]}
    ELSE refreshLog

\* ------------------------------------------------------ token transport
\* a cookie value is a string, kept as the sequence of its parts
BearerPrefix == [literal |-> "Bearer "]
\* request.cookies.get("access_token") without such a cookie
NoCookie == <<>>

\* login_form: value=f"Bearer {access_token}"
BearerCookie(token) == <<BearerPrefix, token>>

\* str.replace(old, ""): every occurrence of old goes
str_replace(string, old) == SelectSeq(string, LAMBDA part : part # old)

\* the cookie wins over the header
RequestToken_cookie_first(header, cookie) ==
    IF cookie # NoCookie /\ str_replace(cookie, BearerPrefix) # <<>>
    THEN Head(str_replace(cookie, BearerPrefix))
    ELSE header

\* get_current_user, lines 106-110: the token of oauth2_scheme, or else the
\* access_token cookie without "Bearer "
RequestToken(header, cookie) ==
    IF header # NoToken THEN header
    ELSE IF cookie # NoCookie
    THEN LET stripped == str_replace(cookie, BearerPrefix)
         IN  IF stripped = <<>> THEN NoToken ELSE Head(stripped)
    ELSE NoToken

\* the access_token cookies a browser may send
Cookies == {NoCookie, <<BearerPrefix>>} \cup {BearerCookie(t) : t \in issued}

\* when the ledger entries of a token run out (none: the empty set)
UntilOf(token) == {e.until : e \in {x \in ledger : x.key = RedisKey(token)}}

\* what is true of a presented token when a call reads it
Snapshot(token) ==
    [revoked |-> is_token_revoked(token),
     everRevoked |-> EverRevoked(token),
     covered |-> Covered(token),
     unexpired |-> ExpOf(token) >= now,
     beforeExp |-> now < ExpOf(token),
     active |-> Active(Get(token.payload, "sub"))]

\* what a call in flight remembers of the moment it started
StartSnapshot(token) ==
    [revoked |-> is_token_revoked(token),
     everRevoked |-> EverRevoked(token),
     covered |-> Covered(token),
     unexpired |-> ExpOf(token) >= now,
     beforeExp |-> now < ExpOf(token)]

\* -------------------------------------------------------------- handlers
\* select(AdminUser).where(username == ...), without the is_active filter
select_user_any(username) ==
    IF username \in DOMAIN users THEN username ELSE NoneStr

\* select(AdminUser).where(username == ..., is_active == True).scalar_one_or_none()
select_active_user(username) ==
    IF username \in DOMAIN users /\ users[username].is_active THEN username ELSE NoneStr

authenticate_user(username, password) ==
    LET user == select_active_user(username)
    IN  IF user = NoneStr \/ ~verify_password(password, users[user].password_hash)
        THEN NoneStr
        ELSE user

\* reachable: whether Redis answered while the call ran
Reply(op, token, status) ==
    [op |-> op, token |-> token, status |-> status, user |-> NoneStr,
     access |-> NoToken, refresh |-> NoToken, pre |-> Snapshot(token),
     reachable |-> TRUE, header |-> NoToken, cookie |-> NoCookie]

\* POST /auth/login
login(username, password) ==
    LET user == authenticate_user(username, password)
        pre == [known |-> username \in DOMAIN users,
                active |-> Active(username),
                pwOk |-> username \in DOMAIN users
                         /\ verify_password(password, users[username].password_hash)]
    IN  IF user = NoneStr
        THEN [Reply("login", NoToken, "bad_login") EXCEPT !.user = username, !.pre = pre]
        ELSE [Reply("login", NoToken, "ok") EXCEPT
                 !.user = username, !.pre = pre,
                 !.access = create_access_token([sub |-> user], None),
                 !.refresh = create_refresh_token([sub |-> user])]

\* a refresh that skips the ledger and never revokes
refresh_unchecked(token) ==
    LET payload == decode_token(token)
    IN  IF payload = None \/ Get(payload, "type") # "refresh"
        THEN Reply("refresh", token, "bad_refresh")
        ELSE [Reply("refresh", token, "ok") EXCEPT
                 !.access = create_access_token([sub |-> payload.sub], None),
                 !.refresh = create_refresh_token([sub |-> payload.sub])]

\* POST /auth/refresh.  Line 145 tests the coroutine is_token_revoked(...)
\* itself; line 194 calls revoke_token without expires_in (TypeError).
refresh_token_endpoint(token) ==
    IF CoroutineTruthy
    THEN Reply("refresh", token, "refresh_revoked")
    ELSE LET payload == decode_token(token)
         IN  IF payload = None THEN Reply("refresh", token, "bad_refresh")
             ELSE IF Get(payload, "type") # "refresh"
             THEN Reply("refresh", token, "wrong_type")
             ELSE IF Get(payload, "sub") = NoneStr
             THEN Reply("refresh", token, "bad_token")
             ELSE IF select_active_user(payload.sub) = NoneStr
             THEN Reply("refresh", token, "user_not_found")
             ELSE Reply("refresh", token, "TypeError")

\* the body of POST /auth/logout, run once get_current_user has returned:
\* the ledger it leaves
logout == ledger

\* the body of POST /auth/logout/all
logout_all == ledger

\* the endpoints that depend on get_current_user
Endpoints == {"me", "logout", "logout_all"}

\* every endpoint revokes the token it was called with
EndpointLedger_revoking(endpoint) ==
    redis_setex(RedisKey(req.token), AccessTtl)

EndpointLedger(endpoint) ==
    IF endpoint = "logout" THEN logout
    ELSE IF endpoint = "logout_all" THEN logout_all
    ELSE ledger

Idle == [pc |-> "idle"]

\* resp holds a reply until the caller has it
NoReply == [op |-> "none"]

\* ---------------------------------------------------------------- actions
Init ==
    /\ now = 0
    /\ events = 0
    /\ users = [u \in StoredUsers |->
                  [is_active |-> (u = "alice"),
                   password_hash |-> hash_password(PasswordOf(u), <<"salt", u>>),
                   role |-> RoleOf(u),
                   last_login |-> <<>>]]
    /\ ledger = {}
    /\ revocations = {}
    /\ issued = {}
    /\ minted = {}
    /\ refreshLog = {}
    /\ req = Idle
    /\ resp = NoReply

Jumps == {1, AccessTtl, RefreshTtl}

\* time passes; Redis drops the keys whose TTL has elapsed
Tick ==
    /\ resp = NoReply
    /\ events < MaxEvents
    /\ \E d \in Jumps :
          /\ now' = now + d
          /\ ledger' = {e \in ledger : e.until > now + d}
    /\ events' = events + 1
    /\ UNCHANGED <<users, revocations, issued, minted, refreshLog, req, resp>>

\* an administrator activates or deactivates an account
SetActive ==
    /\ resp = NoReply
    /\ \E u \in Toggled :
          users' = [users EXCEPT ![u].is_active = ~users[u].is_active]
    /\ UNCHANGED <<now, events, ledger, revocations, issued, minted, refreshLog, req, resp>>

Login ==
    /\ resp = NoReply
    /\ \E username \in Usernames, password \in Passwords :
          LET r == login(username, password)
          IN  /\ resp' = r
              /\ IF r.status = "ok"
                 THEN /\ events < MaxEvents
                      /\ events' = events + 1
                      /\ issued' = issued \cup {r.access, r.refresh}
                 ELSE UNCHANGED <<events, issued>>
    /\ UNCHANGED <<now, users, ledger, revocations, minted, refreshLog, req>>

\* revoke_token(token, expires_in), called directly: it is the ledger's only
\* write, and no handler of routes/auth.py gets as far as calling it.
\* SETEX refuses a TTL that is not positive.
Revoke ==
    /\ resp = NoReply
    /\ \E token \in Presentable : \E expires_in \in {0, 1} \cup {ExpOf(token) - now} :
          IF expires_in <= 0
          THEN /\ resp' = Reply("revoke", token, "redis_error")
               /\ UNCHANGED <<ledger, revocations, events>>
          ELSE /\ events < MaxEvents
               /\ events' = events + 1
               /\ ledger' = redis_setex(RedisKey(token), expires_in)
               /\ revocations' =
                     {r \in revocations : r.token # token}
                     \cup {[token |-> token, covered |-> now + expires_in >= ExpOf(token)]}
               /\ resp' = [Reply("revoke", token, "ok") EXCEPT
                              !.pre = [expires_in |-> expires_in,
                                       until |-> UntilOf(token)] @@ Snapshot(token)]
    /\ UNCHANGED <<now, users, issued, minted, refreshLog, req>>

Refresh ==
    /\ resp = NoReply
    /\ \E token \in Presented, reachable \in BOOLEAN :
          LET r == refresh_token_endpoint(token)
          IN  /\ RefreshCalls(token) < MaxRefresh
              /\ resp' = [r EXCEPT !.reachable = reachable]
              /\ issued' = IF r.status = "ok"
                           THEN issued \cup {r.access, r.refresh}
                           ELSE issued
              /\ refreshLog' = Logged(token, r.status)
    /\ UNCHANGED <<now, events, users, ledger, revocations, minted, req>>

\* get_current_user, lines 106-121: the token and the ledger check.
\* redis.exists raises ConnectionError when Redis cannot be reached, and
\* nothing catches it.
AuthRequest(cookies) ==
    /\ resp = NoReply
    /\ req = Idle
    /\ \E header \in Presented \cup {NoToken}, cookie \in cookies, reachable \in BOOLEAN :
          LET token == RequestToken(header, cookie)
              Answer(status) ==
                  [Reply("get_current_user", token, status)
                      EXCEPT !.reachable = reachable, !.header = header, !.cookie = cookie]
          IN  IF token = NoToken
              THEN /\ resp' = Answer("credentials")
                   /\ req' = req
              ELSE IF ~reachable
              THEN /\ resp' = Answer("ConnectionError")
                   /\ req' = req
              ELSE IF is_token_revoked(token)
              THEN /\ resp' = Answer("revoked")
                   /\ req' = req
              ELSE /\ req' = [pc |-> "decode", token |-> token,
                              pre |-> StartSnapshot(token),
                              header |-> header, cookie |-> cookie]
                   /\ resp' = NoReply
    /\ UNCHANGED <<now, events, users, ledger, revocations, issued, minted, refreshLog>>

\* a request that brings its token, if any, in the Authorization header
AuthStart == AuthRequest({NoCookie})

\* a request of a browser, which may bring an access_token cookie as well
AuthStartBrowser == AuthRequest(Cookies)

\* what lines 124-137 decide: "" to go on to the user lookup
CheckPayload(payload) ==
    IF payload = None THEN "credentials"
    ELSE IF Get(payload, "type") # "access" THEN "wrong_type"
    ELSE IF Get(payload, "sub") \in {NoneStr, ""} THEN "credentials"
    ELSE ""

\* get_current_user, lines 123-137: decode, kind and subject
AuthDecode ==
    /\ resp = NoReply
    /\ req.pc = "decode"
    /\ LET verdict == CheckPayload(decode_token(req.token))
       IN  IF verdict # ""
           THEN /\ resp' = [Reply("get_current_user", req.token, verdict)
                               EXCEPT !.pre = req.pre,
                                      !.header = req.header, !.cookie = req.cookie]
                /\ req' = Idle
           ELSE /\ req' = [req EXCEPT !.pc = "lookup"]
                /\ resp' = NoReply
    /\ UNCHANGED <<now, events, users, ledger, revocations, issued, minted, refreshLog>>

\* the row is written back whole, with the column defaults
last_login_commit_defaults(user) ==
    [users EXCEPT ![user] = [@ EXCEPT !.last_login = <<now>>, !.role = "editor"]]

\* user.last_login = datetime.now(); await db.commit()
last_login_commit(user) ==
    [users EXCEPT ![user].last_login = <<now>>]

\* the attributes of an AdminUser object: getattr on any other name raises
HasAttr(row, name) == name \in DOMAIN row

\* the new passwords change_password is asked to set
NewPasswords == {"pw-new"}

\* POST /auth/change-password, run once get_current_user has returned
\* current_user and committed its last_login: the reply status and the table
\* it leaves.  Lines 244 and 251 use current_user.password; AdminUser has
\* password_hash and no password.
change_password(current_user, old_password, new_password) ==
    LET table == last_login_commit(current_user)
    IN  IF ~HasAttr(table[current_user], "password")
        THEN [status |-> "AttributeError", users |-> table]
        ELSE IF ~verify_password(old_password, table[current_user].password)
        THEN [status |-> "bad_old_password", users |-> table]
        ELSE [status |-> "ok",
              users |-> [table EXCEPT ![current_user].password =
                            hash_password(new_password, <<"salt", current_user>>)]]

\* get_current_user, lines 139-152, then the body of the endpoint that asked
AuthLookup ==
    /\ resp = NoReply
    /\ req.pc = "lookup"
    /\ LET user == select_active_user(req.token.payload.sub)
       IN  IF user = NoneStr
           THEN /\ resp' = [Reply("get_current_user", req.token, "credentials")
                               EXCEPT !.pre = req.pre,
                                      !.header = req.header, !.cookie = req.cookie]
                /\ UNCHANGED <<users, ledger>>
           ELSE \/ \E endpoint \in Endpoints :
                     /\ users' = last_login_commit(user)
                     /\ ledger' = EndpointLedger(endpoint)
                     /\ resp' = [Reply(endpoint, req.token, "ok")
                                    EXCEPT !.user = user, !.pre = req.pre,
                                           !.header = req.header, !.cookie = req.cookie]
                \/ \E old_password \in Passwords, new_password \in NewPasswords :
                     LET r == change_password(user, old_password, new_password)
                     IN  /\ users' = r.users
                         /\ ledger' = ledger
                         /\ resp' = [Reply("change_password", req.token, r.status)
                                        EXCEPT !.user = user,
                                               !.pre = [old_password |-> old_password,
                                                        new_password |-> new_password,
                                                        password_hash |-> users[user].password_hash]
                                                       @@ req.pre,
                                               !.header = req.header, !.cookie = req.cookie]
    /\ req' = Idle
    /\ UNCHANGED <<now, events, revocations, issued, minted, refreshLog>>

\* the reply reaches the caller; nothing reads resp, so the next step waiting
\* for it changes nothing the handlers see
Deliver ==
    /\ resp # NoReply
    /\ resp' = NoReply
    /\ UNCHANGED <<now, events, users, ledger, revocations, issued, minted, refreshLog, req>>

\* the claims and lifetimes the codec is called with directly
Data == {[sub |-> "alice"],
         [sub |-> "bob", role |-> "admin"],
         [sub |-> "alice", type |-> "refresh"]}
Deltas == {None, timedelta(0 - 60), timedelta(0), timedelta(1), timedelta(60)}

\* create_access_token(data, expires_delta) or create_refresh_token(data)
Issue ==
    /\ resp = NoReply
    /\ Cardinality(minted) < MaxMinted
    /\ \E data \in Data, kind \in {"access", "refresh"}, expires_delta \in Deltas :
          /\ kind = "refresh" => expires_delta = None
          /\ LET token == IF kind = "access"
                          THEN create_access_token(data, expires_delta)
                          ELSE create_refresh_token(data)
                 call == [token |-> token, data |-> data, kind |-> kind,
                          expires_delta |-> expires_delta, at |-> now]
             IN  /\ minted' = minted \cup {call}
                 /\ issued' = issued \cup {token}
                 /\ resp' = [op |-> "issue", token |-> token, minted |-> call]
    /\ UNCHANGED <<now, events, users, ledger, revocations, refreshLog, req>>

\* decode_token(token) on a minted token or on an edited copy of it
Decode ==
    /\ resp = NoReply
    /\ \E call \in minted : \E token \in {call.token} \cup Tampered(call.token) :
          resp' = [op |-> "decode", token |-> token, minted |-> call,
                   raised |-> jwt_decode(token, SECRET_KEY, {ALGORITHM}).raised,
                   claims |-> decode_token(token)]
    /\ UNCHANGED <<now, events, users, ledger, revocations, issued, minted, refreshLog, req>>

\* ------------------------------------------------------------ week types
\* dates are day numbers; date - date is their difference in days
Dates == 0 .. MaxDay

\* the first_week_type values check_first_week_type lets a row hold
WeekTypes == {"upper", "lower", "both"}

\* SemesterSettings rows, by the columns get_week_type_for_date reads; no
\* constraint orders start_date and end_date
Semesters ==
    [start_date : 0 .. MaxStart, end_date : Dates, first_week_type : WeekTypes]

\* a mapped row is truthy; only None is not
semester_bool(semester) == semester # None

get_week_type_for_date_exclusive_end(target_date, semester) ==
    IF \/ ~semester_bool(semester)
       \/ target_date < semester.start_date
       \/ target_date >= semester.end_date
    THEN NoneStr
    ELSE LET weeks_passed == (target_date - semester.start_date) \div 7
         IN  IF semester.first_week_type = "upper"
             THEN (IF weeks_passed % 2 = 0 THEN "upper" ELSE "lower")
             ELSE (IF weeks_passed % 2 = 0 THEN "lower" ELSE "upper")

\* get_week_type_for_date(target_date, semester); NoneStr is its None
get_week_type_for_date(target_date, semester) ==
    IF \/ ~semester_bool(semester)
       \/ target_date < semester.start_date
       \/ target_date > semester.end_date
    THEN NoneStr
    ELSE LET weeks_passed == (target_date - semester.start_date) \div 7
         IN  IF semester.first_week_type = "upper"
             THEN (IF weeks_passed % 2 = 0 THEN "upper" ELSE "lower")
             ELSE (IF weeks_passed % 2 = 0 THEN "lower" ELSE "upper")

\* one call of get_week_type_for_date
WeekType ==
    /\ resp = NoReply
    /\ \E target_date \in Dates, semester \in Semesters \cup {None} :
          resp' = [op |-> "week_type", target_date |-> target_date,
                   semester |-> semester,
                   result |-> get_week_type_for_date(target_date, semester)]
    /\ UNCHANGED <<now, events, users, ledger, revocations, issued, minted, refreshLog, req>>

\* the protected endpoints
NextAuth ==
    \/ Deliver
    \/ Tick
    \/ SetActive
    \/ Login
    \/ Revoke
    \/ AuthStart
    \/ AuthDecode
    \/ AuthLookup

\* the refresh endpoint
NextRefresh ==
    \/ Deliver
    \/ Tick
    \/ SetActive
    \/ Login
    \/ Revoke
    \/ Refresh

\* get_current_user behind requests that may carry cookies
NextTransport ==
    \/ Deliver
    \/ Tick
    \/ SetActive
    \/ Login
    \/ AuthStartBrowser
    \/ AuthDecode
    \/ AuthLookup

\* every handler, on one clock reading and with the accounts as they are
NextHandlers ==
    \/ Deliver
    \/ Login
    \/ Revoke
    \/ Refresh
    \/ AuthStart
    \/ AuthDecode
    \/ AuthLookup

\* the token codec on its own
NextCodec ==
    \/ Deliver
    \/ Tick
    \/ Issue
    \/ Decode

SpecAuth == Init /\ [][NextAuth]_vars

SpecRefresh == Init /\ [][NextRefresh]_vars

SpecTransport == Init /\ [][NextTransport]_vars

SpecHandlers == Init /\ [][NextHandlers]_vars

SpecCodec == Init /\ [][NextCodec]_vars

\* the week-type function on its own
NextWeek ==
    \/ Deliver
    \/ WeekType

SpecWeek == Init /\ [][NextWeek]_vars

\* ----------------------------------------------------------------- claims
AuthOps == Endpoints \cup {"get_current_user"}

IsAccessToken(token) == ValidSig(token) /\ Get(token.payload, "type") = "access"
IsRefreshToken(token) == ValidSig(token) /\ Get(token.payload, "type") = "refresh"

\* a refresh call has just answered a validly signed refresh token that was
\* unexpired and not in the ledger, for an active account
RefreshedValid ==
    /\ resp.op = "refresh"
    /\ IsRefreshToken(resp.token)
    /\ resp.pre.unexpired
    /\ ~resp.pre.revoked
    /\ resp.pre.active

\* the pairs earlier refresh calls returned for the token just presented
EarlierOks == RefreshOks(resp.token) - (IF resp.status = "ok" THEN 1 ELSE 0)

\* C1: the first refresh of a valid, unexpired, unrevoked refresh token of an
\* active user returns a new pair, and every refresh of it after that is
\* rejected as revoked.
C1_SingleUseRefresh ==
    /\ (RefreshedValid /\ EarlierOks = 0) =>
          /\ resp.status = "ok"
          /\ resp.access # NoToken
          /\ resp.refresh # NoToken
    /\ (resp.op = "refresh" /\ EarlierOks > 0) => resp.status = "refresh_revoked"

C3_TypeIsolation ==
    /\ (resp.op = "refresh" /\ IsAccessToken(resp.token)
           /\ resp.pre.unexpired /\ ~resp.pre.revoked) =>
          /\ resp.status = "wrong_type"
          /\ resp.access = NoToken
          /\ resp.refresh = NoToken
    /\ (resp.op \in AuthOps /\ IsRefreshToken(resp.token)
           /\ ExpOf(resp.token) >= now /\ ~resp.pre.revoked) =>
          /\ resp.status = "wrong_type"
          /\ resp.user = NoneStr

\* what the caller of login sees
Observable(r) == [status |-> r.status, access |-> r.access, refresh |-> r.refresh]

\* C4: login with an unknown username, an inactive account or a wrong
\* password gives one and the same reply, which carries no token.
C4_LoginEnumerationSafety ==
    (resp.op = "login" /\ (~resp.pre.known \/ ~resp.pre.active \/ ~resp.pre.pwOk)) =>
        Observable(resp) =
            [status |-> "bad_login", access |-> NoToken, refresh |-> NoToken]

\* C4 witness: an inactive account was refused although the password was right.
C4_Witness ==
    /\ resp.op = "login"
    /\ resp.status = "bad_login"
    /\ resp.pre.known
    /\ ~resp.pre.active
    /\ resp.pre.pwOk

\* C5: login of an active account with the right password returns an access
\* and a refresh token for that username; get_current_user with an access
\* token that login issued, not expired, never revoked, its account active,
\* succeeds and returns the user the token names, provided Redis answers.
C5_HappyPath ==
    /\ (resp.op = "login" /\ resp.pre.known /\ resp.pre.active /\ resp.pre.pwOk) =>
          /\ resp.status = "ok"
          /\ IsAccessToken(resp.access)
          /\ IsRefreshToken(resp.refresh)
          /\ resp.access.payload.sub = resp.user
          /\ resp.refresh.payload.sub = resp.user
    /\ (resp.op \in AuthOps /\ resp.token \in issued /\ IsAccessToken(resp.token)
           /\ ExpOf(resp.token) >= now /\ ~EverRevoked(resp.token)
           /\ Active(resp.token.payload.sub) /\ resp.reachable) =>
          /\ resp.status = "ok"
          /\ resp.user = resp.token.payload.sub

\* C5 witness: a token that login issued has authenticated its user after
\* time has passed.
C5_Witness ==
    /\ resp.op \in Endpoints
    /\ resp.status = "ok"
    /\ resp.token \in issued
    /\ resp.user = "alice"
    /\ now > 0

\* C6: once logout has answered, the access token it was called with is in the
\* revocation ledger.
C6_LogoutRevokes ==
    (resp.op = "logout" /\ resp.status = "ok") => is_token_revoked(resp.token)

\* C7: a refresh call records the presented token in the ledger before it
\* returns: no refresh has returned a pair with the presented token absent
\* from the ledger, and a refresh of a valid token leaves it in the ledger.
C7_RotationOrdering ==
    /\ (resp.op = "refresh" /\ resp.status = "ok") => is_token_revoked(resp.token)
    /\ RefreshedValid => is_token_revoked(resp.token)

\* C8: refresh of a valid token R1 returns a pair (A2, R2) that the rotation
\* has not revoked, and R1 is revoked from then on.
C8_RotationChain ==
    RefreshedValid =>
        /\ resp.status = "ok"
        /\ IsAccessToken(resp.access) /\ ~is_token_revoked(resp.access)
        /\ IsRefreshToken(resp.refresh) /\ ~is_token_revoked(resp.refresh)
        /\ refresh_token_endpoint(resp.token).status = "refresh_revoked"

C10_StaleVersusForged ==
    \A stale \in Presentable, forged \in Presentable :
        (ValidSig(stale) /\ ExpOf(stale) < now /\ ~ValidSig(forged)) =>
            decode_token(stale) # decode_token(forged)

\* C11: a token issued with a ttl of zero or less carries expiresAt =
\* issuance time + ttl, and the next decode rejects it as expired
C11_ExpiryAtZeroTtl ==
    (/\ resp.op = "decode"
     /\ resp.token = resp.minted.token
     /\ resp.minted.expires_delta # None
     /\ resp.minted.expires_delta.seconds <= 0)
    => /\ ExpOf(resp.token) = resp.minted.at + resp.minted.expires_delta.seconds
       /\ resp.claims = None
       /\ resp.raised = "ExpiredSignatureError"

\* C12: when Redis cannot be reached while get_current_user or the refresh
\* endpoint handles a token that decodes, the call ends with the ledger's
\* error and returns no user and no token pair
C12_FailClosed ==
    (/\ resp.op \in AuthOps \cup {"refresh"}
     /\ ~resp.reachable
     /\ ValidSig(resp.token)
     /\ resp.pre.unexpired)
    => /\ resp.status = "ConnectionError"
       /\ resp.user = NoneStr
       /\ resp.access = NoToken
       /\ resp.refresh = NoToken

\* C13: once the account of an access token is no longer active, a
\* get_current_user call with that token, validly signed, unexpired and not
\* revoked, is rejected as an inactive account and returns no user
C13_DeactivationTakesEffect ==
    (/\ resp.op \in AuthOps
     /\ IsAccessToken(resp.token)
     /\ resp.token \in issued
     /\ ExpOf(resp.token) >= now
     /\ ~resp.pre.revoked
     /\ resp.reachable
     /\ ~Active(resp.token.payload.sub))
    => /\ resp.status = "inactive_account"
       /\ resp.user = NoneStr

\* C14: a validly signed, unexpired token whose type claim is absent or is
\* neither "access" nor "refresh" is rejected by get_current_user and by the
\* refresh endpoint as an invalid token, not as a token of the wrong type,
\* and is never accepted
C14_MissingOrUnknownKind ==
    (/\ resp.op \in AuthOps \cup {"refresh"}
     /\ ValidSig(resp.token)
     /\ Get(resp.token.payload, "type") \notin {"access", "refresh"}
     /\ ExpOf(resp.token) >= now
     /\ ~resp.pre.revoked
     /\ resp.reachable)
    => /\ resp.status \in {"credentials", "bad_refresh"}
       /\ resp.user = NoneStr
       /\ resp.access = NoToken
       /\ resp.refresh = NoToken

\* C15: get_current_user decides on the header token whenever there is one,
\* so a user is returned only if the header token itself is a good access
\* token; without a header token it decides on the access_token cookie with
\* "Bearer " removed; with neither it rejects
C15_TransportPrecedence ==
    resp.op \in AuthOps =>
       /\ resp.header # NoToken =>
             /\ resp.token = resp.header
             /\ resp.user # NoneStr => IsAccessToken(resp.header)
       /\ (resp.header = NoToken /\ Len(resp.cookie) = 2) =>
             /\ resp.token = resp.cookie[2]
             /\ resp.user # NoneStr => IsAccessToken(resp.cookie[2])
       /\ (resp.header = NoToken /\ Len(resp.cookie) < 2) =>
             /\ resp.status = "credentials"
             /\ resp.user = NoneStr

\* a bad header token was turned down although the cookie held a good,
\* unexpired access token of an active account
C15_Witness ==
    /\ resp.op = "get_current_user"
    /\ resp.header # NoToken
    /\ ~ValidSig(resp.header)
    /\ Len(resp.cookie) = 2
    /\ IsAccessToken(resp.cookie[2])
    /\ ExpOf(resp.cookie[2]) > now
    /\ Active(resp.cookie[2].payload.sub)
    /\ ~is_token_revoked(resp.cookie[2])
    /\ resp.status = "credentials"

\* C16: the access token and the refresh token of a successful login, and
\* of a successful refresh, carry the username as sub and the account's
\* role, with type access and refresh
C16_IssuedClaims ==
    (resp.op \in {"login", "refresh"} /\ resp.status = "ok") =>
       LET username == IF resp.op = "login" THEN resp.user
                       ELSE resp.token.payload.sub
       IN  /\ Get(resp.access.payload, "type") = "access"
           /\ Get(resp.refresh.payload, "type") = "refresh"
           /\ \A token \in {resp.access, resp.refresh} :
                 /\ Get(token.payload, "sub") = username
                 /\ Get(token.payload, "role") = users[username].role

WithoutExp(claims) == [k \in DOMAIN claims \ {"exp"} |-> claims[k]]

\* the call asked for a lifetime above zero (create_refresh_token has its own)
PositiveTtl(call) ==
    call.kind = "refresh"
    \/ (call.expires_delta # None /\ call.expires_delta.seconds > 0)

C19_LogoutAllRevokes ==
    (resp.op = "logout_all" /\ resp.status = "ok") =>
       \A token \in issued :
          (Get(token.payload, "sub") = resp.user /\ now < ExpOf(token))
             => is_token_revoked(token)

\* C20: decode_token of an edited copy of a valid token (payload, signature
\* or header changed) fails on the signature and returns no claims
C20_TamperDetection ==
    (resp.op = "decode" /\ resp.token # resp.minted.token)
    => /\ resp.claims = None
       /\ resp.raised = "JWTError"

\* an unexpired token whose subject was edited has been decoded
C20_Witness ==
    /\ resp.op = "decode"
    /\ resp.token = TamperSub(resp.minted.token)
    /\ now <= ExpOf(resp.token)
    /\ resp.claims = None

\* C21: get_current_user decodes before it asks the ledger: a token that
\* does not decode (bad signature, malformed, expired) is rejected as invalid
\* even when it is in the ledger, and only a validly signed, unexpired token
\* is rejected as revoked
C21_OrderOfChecks ==
    (resp.op \in AuthOps /\ resp.token # NoToken /\ resp.reachable) =>
       /\ resp.status = "revoked" => (ValidSig(resp.token) /\ resp.pre.unexpired)
       /\ (resp.pre.revoked /\ (~ValidSig(resp.token) \/ ~resp.pre.unexpired))
             => resp.status = "credentials"

\* C22: every ledger entry is keyed revoked:<token> and runs out no later
\* than the token it names, so a validly signed token is in the ledger only
\* before its own exp
C22_EntriesDoNotOutliveTokens ==
    \A e \in ledger :
       /\ e.key[1] = "revoked:"
       /\ ValidSig(e.key[2]) =>
             /\ e.until <= ExpOf(e.key[2])
             /\ is_token_revoked(e.key[2]) => now < ExpOf(e.key[2])

\* C23: login, get_current_user and a refresh or logout that ends in an
\* error leave the ledger as it is; a step adds an entry to the ledger only
\* if it is a revoke_token call, a logout or a refresh that succeeds
C23_LedgerFrame ==
    [][/\ (\/ resp'.op \in {"login", "get_current_user", "me"}
           \/ (resp'.op \in {"refresh", "logout"} /\ resp'.status # "ok")
           \/ req' # req)
          => ledger' = ledger
       /\ (ledger' \ ledger # {})
          => (/\ resp'.op \in {"revoke", "logout", "logout_all", "refresh"}
              /\ resp'.status = "ok")
      ]_vars

\* a get_current_user call has gone through and a refresh has been turned
\* down while the ledger held an entry
C23_Witness ==
    /\ ledger # {}
    /\ \/ resp.op = "me" /\ resp.status = "ok"
       \/ resp.op = "refresh" /\ resp.status # "ok" /\ IsRefreshToken(resp.token)

Credential(row) ==
    [password_hash |-> row.password_hash, is_active |-> row.is_active, role |-> row.role]

\* C24: login, get_current_user, refresh and logout never change an account's
\* username, password hash, active flag or role; the only write is last_login,
\* made by a get_current_user call that succeeds, and a rejected call writes
\* nothing
C24_CredentialFrame ==
    [][/\ DOMAIN users' = DOMAIN users
       /\ \A u \in DOMAIN users : Credential(users'[u]) = Credential(users[u])
       /\ users' # users =>
             /\ resp'.op \in Endpoints \cup {"change_password"}
             /\ resp'.user # NoneStr
             /\ users' = [users EXCEPT ![resp'.user].last_login = <<now>>]
       /\ (\/ resp'.op \in {"login", "refresh", "get_current_user"}
           \/ req' # req /\ resp' = NoReply)
          => users' = users
      ]_vars

\* after a get_current_user call has stamped alice's row, a get_current_user
\* call has been turned down or a login has answered
C24_Witness ==
    /\ users["alice"].last_login # <<>>
    /\ \/ resp.op = "get_current_user" /\ resp.token # NoToken
       \/ resp.op = "login"

\* a refresh call has just answered a validly signed, unexpired refresh token
\* that was not in the ledger and whose account was not active
RefreshedInactive ==
    /\ resp.op = "refresh"
    /\ IsRefreshToken(resp.token)
    /\ resp.pre.unexpired
    /\ ~resp.pre.revoked
    /\ ~resp.pre.active

\* C25: refresh with a validly signed, unexpired, unrevoked refresh token
\* whose account is gone or no longer active is rejected, returns no tokens
\* and does not put the presented token into the ledger
C25_RefreshRechecksAccount ==
    RefreshedInactive =>
       /\ resp.status # "ok"
       /\ resp.access = NoToken
       /\ resp.refresh = NoToken
       /\ ~is_token_revoked(resp.token)

\* the refresh token of a login was presented after the account was
\* deactivated
C25_Witness ==
    /\ RefreshedInactive
    /\ resp.token \in issued
    /\ resp.status # "ok"

\* C26: change_password with an old password that does not match the stored
\* hash is rejected (400) and leaves the hash as it was; with the matching
\* old password it replaces the hash, so that login with the new password
\* succeeds and login with the old one fails
C26_PasswordChange ==
    resp.op = "change_password" =>
       LET row == users[resp.user]
       IN  IF verify_password(resp.pre.old_password, resp.pre.password_hash)
           THEN /\ resp.status = "ok"
                /\ verify_password(resp.pre.new_password, row.password_hash)
                /\ login(resp.user, resp.pre.new_password).status = "ok"
                /\ login(resp.user, resp.pre.old_password).status = "bad_login"
           ELSE /\ resp.status = "bad_old_password"
                /\ row.password_hash = resp.pre.password_hash

Opposite(week_type) == IF week_type = "upper" THEN "lower" ELSE "upper"

InSemester(target_date, semester) ==
    /\ semester # None
    /\ semester.start_date <= target_date
    /\ target_date <= semester.end_date

WeeksElapsed(target_date, semester) == (target_date - semester.start_date) \div 7

\* C27 as stated: get_week_type_for_date returns None exactly when the
\* semester is missing or the date is outside [start_date, end_date]; else it
\* returns first_week_type for an even number of elapsed weeks and the
\* opposite for an odd number, always 'upper' or 'lower', alternating every
\* 7 days
C27_WeekTypeByDate ==
    resp.op = "week_type" =>
       /\ (resp.result = NoneStr) <=> ~InSemester(resp.target_date, resp.semester)
       /\ InSemester(resp.target_date, resp.semester) =>
             /\ resp.result \in {"upper", "lower"}
             /\ WeeksElapsed(resp.target_date, resp.semester) % 2 = 0
                   => resp.result = resp.semester.first_week_type
             /\ WeeksElapsed(resp.target_date, resp.semester) % 2 = 1
                   => resp.result # resp.semester.first_week_type
             /\ InSemester(resp.target_date + 7, resp.semester)
                   => get_week_type_for_date(resp.target_date + 7, resp.semester)
                         = Opposite(resp.result)

\* the week type a semester starts with: 'upper' when first_week_type says
\* so, 'lower' for 'lower' and for 'both'
StartsWith(semester) ==
    IF semester.first_week_type = "upper" THEN "upper" ELSE "lower"

\* C27, amended: get_week_type_for_date returns None exactly when the
\* semester is missing or the date is outside [start_date, end_date]; else it
\* returns 'upper' or 'lower': for an even number of elapsed weeks 'upper'
\* when first_week_type is 'upper' and 'lower' when it is 'lower' or 'both',
\* for an odd number the opposite, and the result alternates every 7 days
C27_WeekTypeBothAsLower ==
    resp.op = "week_type" =>
       /\ (resp.result = NoneStr) <=> ~InSemester(resp.target_date, resp.semester)
       /\ InSemester(resp.target_date, resp.semester) =>
             /\ resp.result \in {"upper", "lower"}
             /\ WeeksElapsed(resp.target_date, resp.semester) % 2 = 0
                   => resp.result = StartsWith(resp.semester)
             /\ WeeksElapsed(resp.target_date, resp.semester) % 2 = 1
                   => resp.result = Opposite(StartsWith(resp.semester))
             /\ InSemester(resp.target_date + 7, resp.semester)
                   => get_week_type_for_date(resp.target_date + 7, resp.semester)
                         = Opposite(resp.result)

\* the last day of a 'both' semester, in its second week, with a week to
\* look back on
C27_Witness ==
    /\ resp.op = "week_type"
    /\ resp.semester # None
    /\ resp.semester.first_week_type = "both"
    /\ resp.target_date = resp.semester.end_date
    /\ WeeksElapsed(resp.target_date, resp.semester) = 1
    /\ resp.result = "upper"

====
